---- MODULE Spec2Model ----
(***************************************************************************)
(* Accordion (compound components) and SearchableList (render props +      *)
(* debounce) of React-patterns_Compound-Components.                        *)
(*                                                                         *)
(* Strings are sequences of one-character strings, so that                 *)
(* JSON.stringify, toLowerCase and includes are computed character by      *)
(* character.  Time is in milliseconds; a timer whose delay has elapsed    *)
(* runs before time advances further.                                      *)
(***************************************************************************)
EXTENDS Integers, Sequences, FiniteSets, TLC

\* ---------------------------------------------------------------- bounds
MaxKeys == 3          \* keystrokes handled over all lists
MaxTime == 600        \* no keystroke is typed after this instant (ms)
TickMs == 100         \* granularity of the passing of time (ms)
MaxToggles == 4       \* toggleItem calls over all accordions
TypingWindow == 100   \* with two lists in use, no keystroke after this instant (ms)
MaxItemChanges == 1   \* re-renders with a new items prop over all lists

\* ------------------------------------------------------ program constants
DELAY == 500

Undefined == "undefined"
Null == "null"

\* the values of the ref lastChange.current
NoHandle(v) == [kind |-> v, id |-> 0]
Handle(n) == [kind |-> "timer", id |-> n]

\* ---------------------------------------------------------------- strings
UpperCase == <<"A","B","C","D","E","F","G","H","I","J","K","L","M",
               "N","O","P","Q","R","S","T","U","V","W","X","Y","Z">>
LowerCase == <<"a","b","c","d","e","f","g","h","i","j","k","l","m",
               "n","o","p","q","r","s","t","u","v","w","x","y","z">>

LowerChar(c) ==
    IF \E i \in 1..Len(UpperCase) : UpperCase[i] = c
    THEN LowerCase[CHOOSE i \in 1..Len(UpperCase) : UpperCase[i] = c]
    ELSE c

toLowerCase(s) == [i \in 1..Len(s) |-> LowerChar(s[i])]

Digits == <<"0","1","2","3","4","5","6","7","8","9">>

RECURSIVE NumberToString(_)
NumberToString(n) ==
    IF n < 10 THEN <<Digits[n + 1]>>
    ELSE NumberToString(n \div 10) \o <<Digits[(n % 10) + 1]>>

RECURSIVE QuoteChars(_)
QuoteChars(s) ==
    IF s = <<>> THEN <<>>
    ELSE (IF Head(s) \in {"\"", "\\"} THEN <<"\\", Head(s)>> ELSE <<Head(s)>>)
         \o QuoteChars(Tail(s))

JSONQuote(s) == <<"\"">> \o QuoteChars(s) \o <<"\"">>

\* JSON.stringify of an item {id: <number>, text: <string>}
JSONstringify(item) ==
    <<"{">> \o JSONQuote(<<"i","d">>) \o <<":">> \o NumberToString(item.id)
    \o <<",">> \o JSONQuote(<<"t","e","x","t">>) \o <<":">> \o JSONQuote(item.text)
    \o <<"}">>

StartsWithAt(hay, needle, pos) ==
    /\ pos + Len(needle) <= Len(hay)
    /\ \A k \in 1..Len(needle) : hay[pos + k] = needle[k]

\* String.prototype.indexOf: first position (from 0) of needle, or -1
RECURSIVE indexOfFrom(_, _, _)
indexOfFrom(hay, needle, pos) ==
    IF pos + Len(needle) > Len(hay) THEN -1
    ELSE IF StartsWithAt(hay, needle, pos) THEN pos
    ELSE indexOfFrom(hay, needle, pos + 1)

includes(hay, needle) == indexOfFrom(hay, needle, 0) # -1

\* a predicate that lowercases the item but not the search term
Matches_CaseSensitive(item, term) ==
    includes(toLowerCase(JSONstringify(item)), term)

\* the predicate of items.filter in SearchableList
Matches(item, term) ==
    includes(toLowerCase(JSONstringify(item)), toLowerCase(term))

\* items.filter(...) with that predicate: keeps the input order
searchResultsOf(its, term) == SelectSeq(its, LAMBDA item : Matches(item, term))

\* ------------------------------------------------------------------ data
AmazonRiver == <<"A","m","a","z","o","n"," ","R","i","v","e","r">>
AfricanSavanna == <<"A","f","r","i","c","a","n"," ","S","a","v","a","n","n","a">>
DesertDunes == <<"D","e","s","e","r","t"," ","D","u","n","e","s">>

Item1 == [id |-> 1, text |-> AmazonRiver]
Item2 == [id |-> 2, text |-> AfricanSavanna]
\* an item that repeats the id of another one
Item3 == [id |-> 2, text |-> DesertDunes]

\* the values the items prop takes; the last one has a duplicate id
ItemLists == { <<Item1, Item2>>, <<Item2, Item1>>, <<Item2, Item3>> }

\* the values the search input takes
Texts == { <<>>, <<"a">>, <<"a","M">>, <<"a","M","a">> }

\* the values one keystroke makes of the value v: a character typed at the
\* end, or the last character deleted
Keystrokes(v) ==
    { text \in Texts :
        \/ Len(text) = Len(v) + 1 /\ SubSeq(text, 1, Len(v)) = v
        \/ Len(v) = Len(text) + 1 /\ SubSeq(v, 1, Len(text)) = text }

Lists == {1, 2}
InitialItems == [l \in Lists |-> IF l = 1 THEN <<Item1, Item2>> ELSE <<Item2, Item1>>]


\* the ids of the Accordion.Item elements App renders
PanelIds == { "compound-components", "compound-components-mechanics",
              "render-props", "render-props-example" }

Accordions == {1, 2}

\* ----------------------------------------------------------------- state
VARIABLES
    \* Accordion
    openItemId,     \* [Accordions -> PanelIds \cup {Undefined, Null}]: useState()
    contentOpen,    \* [Accordions -> [PanelIds -> BOOLEAN]]: what each Accordion.Content shows
    toggleLog,      \* [Accordions -> Seq([id, before, after])]: the toggleItem calls made
    updateQueue,    \* [Accordions -> Seq(id)]: setOpenItemId updaters not yet applied
    clickedTitle,   \* the Accordion.Title element clicked last, 0 before the first click
    \* SearchableList
    items,          \* [Lists -> Seq(item)]: the items prop
    inputValue,     \* [Lists -> string]: the value of the <input type="search">
    searchTerm,     \* [Lists -> string]: useState("")
    searchResults,  \* [Lists -> Seq(item)]: items.filter(...) of the last render pass
    rendered,       \* [Lists -> Seq([key, item, unit])]: the <li> elements of that pass
    lastChange,     \* [Lists -> timer id, Undefined or Null]: useRef().current
    mounted,        \* [Lists -> BOOLEAN]
    timers,         \* the scheduled setTimeout callbacks: [id, owner, deadline]
    nextTimerId,    \* the id the next setTimeout returns
    now,            \* current time (ms)
    keyLog,         \* [Lists -> Seq([at, text])]: the change events handled
    termLog,        \* [Lists -> Seq([at, value, changed])]: the setSearchTerm calls applied
    lateCommits,    \* [Lists -> Nat]: debounce callbacks run after unmount
    filterPasses,   \* [Lists -> Nat]: render passes, each running items.filter
    itemChanges     \* Nat: re-renders with a new items prop

accordionVars == <<openItemId, contentOpen, toggleLog, updateQueue, clickedTitle>>
listVars == <<items, inputValue, searchTerm, searchResults, rendered, lastChange, mounted,
              timers, nextTimerId, now, keyLog, termLog, lateCommits, filterPasses,
              itemChanges>>
vars == <<openItemId, contentOpen, toggleLog, updateQueue, clickedTitle,
          items, inputValue, searchTerm, searchResults, rendered, lastChange, mounted,
          timers, nextTimerId, now, keyLog, termLog, lateCommits, filterPasses,
              itemChanges>>

\* --------------------------------------------------------------- Accordion
\* an updater that opens the target and never closes it
toggleItem_NeverCloses(prevId, id) == id

\* an updater that closes whatever is open before it opens anything
toggleItem_CloseFirst(prevId, id) == IF prevId \in PanelIds THEN Null ELSE id

\* the updater passed to setOpenItemId
toggleItem(prevId, id) == IF prevId = id THEN Null ELSE id

\* a content panel that is open whenever some panel is open
AccordionContent_AnyOpen(id, openId) == openId \in PanelIds

\* Accordion.Content of item id, rendered with the context value openId:
\* open when the item id matches openItemId
AccordionContent(id, openId) == openId = id

Toggles == Len(toggleLog[1]) + Len(toggleLog[2])

\* a title click where each content panel keeps a flag of its own and only
\* the clicked panel flips it
AccordionTitleClick_LocalState(a, id) ==
    /\ Toggles < MaxToggles
    /\ LET newId == toggleItem(openItemId[a], id) IN
         /\ openItemId' = [openItemId EXCEPT ![a] = newId]
         /\ contentOpen' = [contentOpen EXCEPT ![a][id] = ~@]
         /\ toggleLog' = [toggleLog EXCEPT ![a] =
                Append(@, [id |-> id, before |-> openItemId[a], after |-> newId])]
    /\ UNCHANGED listVars

\* a title click where the open id is one value shared by all accordions
AccordionTitleClick_SharedState(a, id) ==
    /\ Toggles < MaxToggles
    /\ LET newId == toggleItem(openItemId[a], id) IN
         /\ openItemId' = [b \in Accordions |-> newId]
         /\ contentOpen' = [b \in Accordions |->
                [p \in PanelIds |-> AccordionContent(p, newId)]]
         /\ toggleLog' = [toggleLog EXCEPT ![a] =
                Append(@, [id |-> id, before |-> openItemId[a], after |-> newId])]
    /\ UNCHANGED listVars

\* a click on the Accordion.Title of item id of accordion a: toggleItem(id),
\* and the re-render of the accordion that the state update causes
AccordionTitleClick(a, id) ==
    /\ Toggles < MaxToggles
    /\ LET newId == toggleItem(openItemId[a], id) IN
         /\ openItemId' = [openItemId EXCEPT ![a] = newId]
         /\ contentOpen' = [contentOpen EXCEPT ![a] =
                [p \in PanelIds |-> AccordionContent(p, newId)]]
         /\ toggleLog' = [toggleLog EXCEPT ![a] =
                Append(@, [id |-> id, before |-> openItemId[a], after |-> newId])]
    /\ UNCHANGED listVars

\* a markup in which one Accordion.Item is nested in the Accordion.Content of
\* another: each element with its kind, its parent element (0 for the
\* root) and, for an item, the id prop
Tree ==
    << [kind |-> "Accordion", id |-> Null, parent |-> 0],
       [kind |-> "Item", id |-> "compound-components", parent |-> 1],
       [kind |-> "Title", id |-> Null, parent |-> 2],
       [kind |-> "Content", id |-> Null, parent |-> 2],
       [kind |-> "Item", id |-> "compound-components-mechanics", parent |-> 4],
       [kind |-> "Title", id |-> Null, parent |-> 5],
       [kind |-> "Item", id |-> "render-props", parent |-> 1],
       [kind |-> "Title", id |-> Null, parent |-> 7],
       [kind |-> "Item", id |-> "render-props-example", parent |-> 1],
       [kind |-> "Content", id |-> Null, parent |-> 9],
       [kind |-> "Title", id |-> Null, parent |-> 10] >>

Nodes == DOMAIN Tree
Titles == { n \in Nodes : Tree[n].kind = "Title" }

\* Accordion.Item: the value the item context has for the children of element
\* n, given the value it has for n itself
AccordionItem(n, outer) == IF Tree[n].kind = "Item" THEN Tree[n].id ELSE outer

\* the value of the item context at element n: that of the closest provider
\* above it
RECURSIVE useAccordionItemContext(_)
useAccordionItemContext(n) ==
    IF Tree[n].parent = 0 THEN Undefined
    ELSE AccordionItem(Tree[n].parent, useAccordionItemContext(Tree[n].parent))

\* the id of the outermost item around element n
RECURSIVE OutermostItem(_)
OutermostItem(n) ==
    IF Tree[n].parent = 0 THEN Undefined
    ELSE LET above == OutermostItem(Tree[n].parent) IN
         IF above # Undefined THEN above
         ELSE IF Tree[Tree[n].parent].kind = "Item" THEN Tree[Tree[n].parent].id
         ELSE Undefined

\* a title that toggles the id of the outermost item around it
AccordionTitle_OuterItem(a, n) ==
    /\ AccordionTitleClick(a, OutermostItem(n))
    /\ clickedTitle' = n
    /\ UNCHANGED updateQueue

\* the Accordion.Title element n is clicked: toggleItem(id) with the id read
\* from the item context
AccordionTitle(a, n) ==
    /\ AccordionTitleClick(a, useAccordionItemContext(n))
    /\ clickedTitle' = n
    /\ UNCHANGED updateQueue

\* React applies one queued state update to the state current at that time: an
\* updater function is called with it, a plain value replaces it
ApplyUpdate(prev, u) == IF u.kind = "updater" THEN toggleItem(prev, u.id) ELSE u.value

\* the state after the queued updates were applied in the order of their calls
RECURSIVE ApplyQueue(_, _)
ApplyQueue(prev, q) ==
    IF q = <<>> THEN prev ELSE ApplyQueue(ApplyUpdate(prev, Head(q)), Tail(q))

\* the toggleItem calls React makes while it applies the queue
RECURSIVE QueueLog(_, _)
QueueLog(prev, q) ==
    IF q = <<>> THEN <<>>
    ELSE <<[id |-> Head(q).id, before |-> prev, after |-> ApplyUpdate(prev, Head(q))]>>
         \o QueueLog(ApplyUpdate(prev, Head(q)), Tail(q))

Queued == Len(updateQueue[1]) + Len(updateQueue[2])

\* a toggleItem that passes setOpenItemId the value computed from the
\* openItemId of the render that created the handler
Activate_CapturedValue(a, id) ==
    /\ Toggles + Queued < MaxToggles
    /\ updateQueue' = [updateQueue EXCEPT ![a] =
           Append(@, [kind |-> "value", id |-> id,
                      value |-> toggleItem(openItemId[a], id)])]
    /\ UNCHANGED <<openItemId, contentOpen, toggleLog, clickedTitle>>
    /\ UNCHANGED listVars

\* a title is activated: toggleItem(id) hands React the updater
\* prevId => prevId === id ? null : id, which React queues until it re-renders
Activate(a, id) ==
    /\ Toggles + Queued < MaxToggles
    /\ updateQueue' = [updateQueue EXCEPT ![a] =
           Append(@, [kind |-> "updater", id |-> id, value |-> Null])]
    /\ UNCHANGED <<openItemId, contentOpen, toggleLog, clickedTitle>>
    /\ UNCHANGED listVars

\* React re-renders the Accordion: useState returns the result of the queued
\* updates and every Accordion.Content renders from the new context value
Rerender(a) ==
    /\ updateQueue[a] # <<>>
    /\ openItemId' = [openItemId EXCEPT ![a] = ApplyQueue(@, updateQueue[a])]
    /\ contentOpen' = [contentOpen EXCEPT ![a] =
           [p \in PanelIds |->
               AccordionContent(p, ApplyQueue(openItemId[a], updateQueue[a]))]]
    /\ toggleLog' = [toggleLog EXCEPT ![a] = @ \o QueueLog(openItemId[a], updateQueue[a])]
    /\ updateQueue' = [updateQueue EXCEPT ![a] = <<>>]
    /\ UNCHANGED clickedTitle
    /\ UNCHANGED listVars

\* an accordion constructed with its first panel open
AccordionInit_FirstOpen ==
    /\ openItemId = [a \in Accordions |-> "compound-components"]
    /\ contentOpen = [a \in Accordions |->
                        [p \in PanelIds |-> p = "compound-components"]]
    /\ toggleLog = [a \in Accordions |-> <<>>]
    /\ updateQueue = [a \in Accordions |-> <<>>]
    /\ clickedTitle = 0

\* the state of a constructed Accordion: useState() without an argument
AccordionInit ==
    /\ openItemId = [a \in Accordions |-> Undefined]
    /\ contentOpen = [a \in Accordions |-> [p \in PanelIds |-> FALSE]]
    /\ toggleLog = [a \in Accordions |-> <<>>]
    /\ updateQueue = [a \in Accordions |-> <<>>]
    /\ clickedTitle = 0

\* ---------------------------------------------------------- SearchableList
\* the itemKeyFn prop App passes to both lists
itemKeyFn(item) == item.id

\* the render function App passes as children: a Place element for the
\* first list, the text of the item for the second
children(l, item) == IF l = 1 THEN [place |-> item] ELSE [string |-> item.text]

\* a list that keys each <li> by its position
RenderedList_IndexKey(l, results) ==
    [j \in 1..Len(results) |->
        [key |-> j, item |-> results[j], unit |-> children(l, results[j])]]

\* searchResults.map(...): one <li key={itemKeyFn(item)}> per item, holding
\* children(item)
RenderedList(l, results) ==
    [j \in 1..Len(results) |->
        [key |-> itemKeyFn(results[j]), item |-> results[j],
         unit |-> children(l, results[j])]]

Truthy(v) == v.kind \notin {Undefined, Null} /\ v.id # 0

clearTimeout(ts, handle) == { t \in ts : t.id # handle.id }

TimersOf(l) == { t \in timers : t.owner = l }

KeysTyped == Len(keyLog[1]) + Len(keyLog[2])

\* a handler without debounce: the state is set in the handler itself
handleChange_Immediate(l, text) ==
    /\ mounted[l]
    /\ text \in Keystrokes(inputValue[l])
    /\ KeysTyped < MaxKeys
    /\ now <= MaxTime
    /\ inputValue' = [inputValue EXCEPT ![l] = text]
    /\ searchTerm' = [searchTerm EXCEPT ![l] = text]
    /\ searchResults' = [searchResults EXCEPT ![l] = searchResultsOf(items[l], text)]
    /\ rendered' = [rendered EXCEPT ![l] =
                        RenderedList(l, searchResultsOf(items[l], text))]
    /\ termLog' = [termLog EXCEPT ![l] =
          Append(@, [at |-> now, value |-> text, changed |-> text # searchTerm[l]])]
    /\ filterPasses' = [filterPasses EXCEPT ![l] = @ + 1]
    /\ keyLog' = [keyLog EXCEPT ![l] = Append(@, [at |-> now, text |-> text])]
    /\ UNCHANGED <<items, lastChange, mounted, timers, nextTimerId, now,
                   lateCommits, itemChanges>>
    /\ UNCHANGED accordionVars

\* a handler that arms a new timer without clearing the previous one
handleChange_NoClear(l, text) ==
    /\ mounted[l]
    /\ text \in Keystrokes(inputValue[l])
    /\ KeysTyped < MaxKeys
    /\ now <= MaxTime
    /\ inputValue' = [inputValue EXCEPT ![l] = text]
    /\ timers' = timers \cup {[id |-> nextTimerId, owner |-> l, deadline |-> now + DELAY]}
    /\ lastChange' = [lastChange EXCEPT ![l] = Handle(nextTimerId)]
    /\ nextTimerId' = nextTimerId + 1
    /\ keyLog' = [keyLog EXCEPT ![l] = Append(@, [at |-> now, text |-> text])]
    /\ UNCHANGED <<items, searchTerm, searchResults, rendered, mounted, now, termLog,
                   lateCommits, filterPasses, itemChanges>>
    /\ UNCHANGED accordionVars

\* a handler that leaves a pending timer running instead of re-arming it
handleChange_Throttle(l, text) ==
    /\ mounted[l]
    /\ text \in Keystrokes(inputValue[l])
    /\ KeysTyped < MaxKeys
    /\ now <= MaxTime
    /\ inputValue' = [inputValue EXCEPT ![l] = text]
    /\ IF Truthy(lastChange[l])
       THEN UNCHANGED <<timers, lastChange, nextTimerId>>
       ELSE /\ timers' = timers \cup
                    {[id |-> nextTimerId, owner |-> l, deadline |-> now + DELAY]}
            /\ lastChange' = [lastChange EXCEPT ![l] = Handle(nextTimerId)]
            /\ nextTimerId' = nextTimerId + 1
    /\ keyLog' = [keyLog EXCEPT ![l] = Append(@, [at |-> now, text |-> text])]
    /\ UNCHANGED <<items, searchTerm, searchResults, rendered, mounted, now, termLog,
                   lateCommits, filterPasses, itemChanges>>
    /\ UNCHANGED accordionVars

\* a handler that clears a pending timer and returns without arming a new one
handleChange_ClearOnly(l, text) ==
    /\ mounted[l]
    /\ text \in Keystrokes(inputValue[l])
    /\ KeysTyped < MaxKeys
    /\ now <= MaxTime
    /\ inputValue' = [inputValue EXCEPT ![l] = text]
    /\ IF Truthy(lastChange[l])
       THEN /\ timers' = clearTimeout(timers, lastChange[l])
            /\ UNCHANGED <<lastChange, nextTimerId>>
       ELSE /\ timers' = timers \cup
                    {[id |-> nextTimerId, owner |-> l, deadline |-> now + DELAY]}
            /\ lastChange' = [lastChange EXCEPT ![l] = Handle(nextTimerId)]
            /\ nextTimerId' = nextTimerId + 1
    /\ keyLog' = [keyLog EXCEPT ![l] = Append(@, [at |-> now, text |-> text])]
    /\ UNCHANGED <<items, searchTerm, searchResults, rendered, mounted, now, termLog,
                   lateCommits, filterPasses, itemChanges>>
    /\ UNCHANGED accordionVars

\* a handleChange whose timer handle lives in one variable of the module,
\* shared by every list
handleChange_SharedRef(l, text) ==
    /\ mounted[l]
    /\ text \in Keystrokes(inputValue[l])
    /\ KeysTyped < MaxKeys
    /\ now <= MaxTime
    /\ inputValue' = [inputValue EXCEPT ![l] = text]
    /\ timers' = { t \in timers :
                      \A m \in Lists : Truthy(lastChange[m]) => t.id # lastChange[m].id }
                 \cup {[id |-> nextTimerId, owner |-> l, deadline |-> now + DELAY]}
    /\ lastChange' = [m \in Lists |-> Handle(nextTimerId)]
    /\ nextTimerId' = nextTimerId + 1
    /\ keyLog' = [keyLog EXCEPT ![l] = Append(@, [at |-> now, text |-> text])]
    /\ UNCHANGED <<items, searchTerm, searchResults, rendered, mounted, now, termLog,
                   lateCommits, filterPasses, itemChanges>>
    /\ UNCHANGED accordionVars

\* the input's onChange handler; text is event.target.value after the
\* keystroke that dispatched the change event
handleChange(l, text) ==
    /\ mounted[l]
    /\ text \in Keystrokes(inputValue[l])
    /\ KeysTyped < MaxKeys
    /\ now <= MaxTime
    /\ inputValue' = [inputValue EXCEPT ![l] = text]
    /\ timers' = (IF Truthy(lastChange[l])
                  THEN clearTimeout(timers, lastChange[l])
                  ELSE timers)
                 \cup {[id |-> nextTimerId, owner |-> l, deadline |-> now + DELAY]}
    /\ lastChange' = [lastChange EXCEPT ![l] = Handle(nextTimerId)]
    /\ nextTimerId' = nextTimerId + 1
    /\ keyLog' = [keyLog EXCEPT ![l] = Append(@, [at |-> now, text |-> text])]
    /\ UNCHANGED <<items, searchTerm, searchResults, rendered, mounted, now, termLog,
                   lateCommits, filterPasses, itemChanges>>
    /\ UNCHANGED accordionVars

\* a callback that leaves the handle in the ref when it runs
TimerFire_NoReset(t) ==
    /\ t \in timers
    /\ t.deadline <= now
    /\ timers' = timers \ {t}
    /\ UNCHANGED lastChange
    /\ IF mounted[t.owner]
       THEN LET value == inputValue[t.owner] IN
            /\ searchTerm' = [searchTerm EXCEPT ![t.owner] = value]
            /\ searchResults' = [searchResults EXCEPT ![t.owner] =
                                    searchResultsOf(items[t.owner], value)]
            /\ rendered' = [rendered EXCEPT ![t.owner] =
                  RenderedList(t.owner, searchResultsOf(items[t.owner], value))]
            /\ termLog' = [termLog EXCEPT ![t.owner] =
                  Append(@, [at |-> now, value |-> value,
                             changed |-> value # searchTerm[t.owner]])]
            /\ \/ filterPasses' = [filterPasses EXCEPT ![t.owner] = @ + 1]
               \/ /\ value = searchTerm[t.owner]
                  /\ UNCHANGED filterPasses
            /\ UNCHANGED lateCommits
       ELSE /\ lateCommits' = [lateCommits EXCEPT ![t.owner] = @ + 1]
            /\ UNCHANGED <<searchTerm, searchResults, rendered, termLog, filterPasses>>
    /\ UNCHANGED <<items, inputValue, mounted, nextTimerId, now, keyLog, itemChanges>>
    /\ UNCHANGED accordionVars

\* the callback given to setTimeout runs: it resets the ref and passes
\* event.target.value, read when it runs, to setSearchTerm.  A changed state
\* re-renders the list (one filter pass); for an unchanged state React may
\* skip the render or run it once more.  React drops the state update of an
\* unmounted component.
TimerFire(t) ==
    /\ t \in timers
    /\ t.deadline <= now
    /\ timers' = timers \ {t}
    /\ lastChange' = [lastChange EXCEPT ![t.owner] = NoHandle(Null)]
    /\ IF mounted[t.owner]
       THEN LET value == inputValue[t.owner] IN
            /\ searchTerm' = [searchTerm EXCEPT ![t.owner] = value]
            /\ searchResults' = [searchResults EXCEPT ![t.owner] =
                                    searchResultsOf(items[t.owner], value)]
            /\ rendered' = [rendered EXCEPT ![t.owner] =
                  RenderedList(t.owner, searchResultsOf(items[t.owner], value))]
            /\ termLog' = [termLog EXCEPT ![t.owner] =
                  Append(@, [at |-> now, value |-> value,
                             changed |-> value # searchTerm[t.owner]])]
            /\ \/ filterPasses' = [filterPasses EXCEPT ![t.owner] = @ + 1]
               \/ /\ value = searchTerm[t.owner]
                  /\ UNCHANGED filterPasses
            /\ UNCHANGED lateCommits
       ELSE /\ lateCommits' = [lateCommits EXCEPT ![t.owner] = @ + 1]
            /\ UNCHANGED <<searchTerm, searchResults, rendered, termLog, filterPasses>>
    /\ UNCHANGED <<items, inputValue, mounted, nextTimerId, now, keyLog, itemChanges>>
    /\ UNCHANGED accordionVars

\* the parent re-renders the list with another items prop
ChangeItems(l, its) ==
    /\ mounted[l]
    /\ its # items[l]
    /\ itemChanges < MaxItemChanges
    /\ items' = [items EXCEPT ![l] = its]
    /\ searchResults' = [searchResults EXCEPT ![l] = searchResultsOf(its, searchTerm[l])]
    /\ rendered' = [rendered EXCEPT ![l] =
                        RenderedList(l, searchResultsOf(its, searchTerm[l]))]
    /\ filterPasses' = [filterPasses EXCEPT ![l] = @ + 1]
    /\ itemChanges' = itemChanges + 1
    /\ UNCHANGED <<inputValue, searchTerm, lastChange, mounted, timers, nextTimerId,
                   now, keyLog, termLog, lateCommits>>
    /\ UNCHANGED accordionVars

\* the list is removed from the page; the component registers no cleanup,
\* so a pending timer stays scheduled
Unmount(l) ==
    /\ mounted[l]
    /\ mounted' = [mounted EXCEPT ![l] = FALSE]
    /\ UNCHANGED <<items, inputValue, searchTerm, searchResults, rendered, lastChange, timers,
                   nextTimerId, now, keyLog, termLog, lateCommits, filterPasses,
                   itemChanges>>
    /\ UNCHANGED accordionVars

Deadlines == { t.deadline : t \in timers }
EarliestDeadline == CHOOSE d \in Deadlines : \A e \in Deadlines : d <= e

\* the instant after which the model lets no more time pass: every timer
\* armed by a keystroke at MaxTime or before has run by then
Horizon == MaxTime + DELAY + TickMs

\* time passes, but not beyond the instant at which a timer is due
Tick ==
    /\ \A t \in timers : t.deadline > now
    /\ now < Horizon
    /\ now' = IF timers # {} /\ EarliestDeadline < now + TickMs
              THEN EarliestDeadline
              ELSE now + TickMs
    /\ UNCHANGED <<items, inputValue, searchTerm, searchResults, rendered, lastChange, mounted,
                   timers, nextTimerId, keyLog, termLog, lateCommits, filterPasses,
                   itemChanges>>
    /\ UNCHANGED accordionVars

ListInit ==
    /\ items = InitialItems
    /\ inputValue = [l \in Lists |-> <<>>]
    /\ searchTerm = [l \in Lists |-> <<>>]
    /\ searchResults = [l \in Lists |-> searchResultsOf(InitialItems[l], <<>>)]
    /\ rendered = [l \in Lists |->
                      RenderedList(l, searchResultsOf(InitialItems[l], <<>>))]
    /\ lastChange = [l \in Lists |-> NoHandle(Undefined)]
    /\ mounted = [l \in Lists |-> TRUE]
    /\ timers = {}
    /\ nextTimerId = 1
    /\ now = 0
    /\ keyLog = [l \in Lists |-> <<>>]
    /\ termLog = [l \in Lists |-> <<>>]
    /\ lateCommits = [l \in Lists |-> 0]
    /\ filterPasses = [l \in Lists |-> 1]
    /\ itemChanges = 0

\* ---------------------------------------------------------- specifications
Init == AccordionInit /\ ListInit

\* a title is clicked and React applies the update before anything else happens
AccordionNext(A) ==
    \E a \in A, id \in PanelIds :
        AccordionTitleClick(a, id) /\ UNCHANGED <<updateQueue, clickedTitle>>

ListNext(L) ==
    \/ \E l \in L, text \in Texts : handleChange(l, text)
    \/ \E t \in timers : TimerFire(t)
    \/ \E l \in L, its \in ItemLists : ChangeItems(l, its)
    \/ \E l \in L : Unmount(l)
    \/ Tick

\* one accordion is clicked on
AccordionOneNext == AccordionNext({1})
SpecAccordion == Init /\ [][AccordionOneNext]_vars

\* two accordions with the same panel ids are clicked on
AccordionAllNext == AccordionNext(Accordions)
SpecAccordions == Init /\ [][AccordionAllNext]_vars

\* activations of the titles of one accordion queue up between its re-renders
AccordionBatchedNext ==
    \/ \E id \in PanelIds : Activate(1, id)
    \/ Rerender(1)
SpecAccordionBatched == Init /\ [][AccordionBatchedNext]_vars

\* the titles of an accordion with nested items are clicked on
AccordionNestedNext == \E n \in Titles : AccordionTitle(1, n)
SpecAccordionNested == Init /\ [][AccordionNestedNext]_vars

\* the user works with one of the two lists
ListOneNext == ListNext({1})
SpecList == Init /\ [][ListOneNext]_vars

\* the user types into both lists, which stay mounted, during the first
\* TypingWindow milliseconds
ListAllNext ==
    \/ \E l \in Lists, text \in Texts : now <= TypingWindow /\ handleChange(l, text)
    \/ \E t \in timers : TimerFire(t)
    \/ \E l \in Lists, its \in ItemLists : ChangeItems(l, its)
    \/ Tick
SpecLists == Init /\ [][ListAllNext]_vars


\* ------------------------------------------------------ Accordion: claims
None(v) == v \in {Undefined, Null}

OpenPanels(a) == { p \in PanelIds : contentOpen[a][p] }

\* C1: in every state reached by toggleItem calls, at most one panel id
\* equals openItemId and at most one panel of the accordion is open.
C1_AtMostOneOpen ==
    \A a \in Accordions :
        /\ Cardinality({ p \in PanelIds : p = openItemId[a] }) <= 1
        /\ Cardinality(OpenPanels(a)) <= 1

\* a panel was opened while another one was open
C1_Witness ==
    \E a \in Accordions :
        /\ Len(toggleLog[a]) >= 2
        /\ toggleLog[a][Len(toggleLog[a])].before \in PanelIds
        /\ toggleLog[a][Len(toggleLog[a])].after \in PanelIds
        /\ Cardinality(OpenPanels(a)) = 1

LogIds(a) == [i \in 1..Len(toggleLog[a]) |-> toggleLog[a][i].id]
LogAfter(a) == [i \in 1..Len(toggleLog[a]) |-> toggleLog[a][i].after]

\* C2: toggleItem(target) yields none when target is the open id and target
\* otherwise; each call starts from the result of the previous one, and
\* activating A, B, B gives open=A, open=B, open=none.
C2_ToggleResult ==
    \A a \in Accordions :
        /\ \A i \in 1..Len(toggleLog[a]) :
             LET e == toggleLog[a][i] IN
               /\ e.before = e.id => None(e.after)
               /\ e.before # e.id => e.after = e.id
               /\ e.before = (IF i = 1 THEN Undefined ELSE toggleLog[a][i - 1].after)
        /\ Len(toggleLog[a]) > 0 => openItemId[a] = toggleLog[a][Len(toggleLog[a])].after
        /\ \A A \in PanelIds, B \in PanelIds :
             (A # B /\ LogIds(a) = <<A, B, B>>) => LogAfter(a) = <<A, B, Null>>

\* the scenario activate A, activate B, activate B was run
C2_Witness ==
    \E a \in Accordions : \E A \in PanelIds, B \in PanelIds :
        A # B /\ LogIds(a) = <<A, B, B>> /\ None(openItemId[a])

\* both values mean closed, or both are the same open panel
SameOpenState(x, y) == (None(x) /\ None(y)) \/ x = y

\* C3 as claimed: toggleItem(id) twice in a row returns the open-state to
\* what it was before the first call, whatever that state was.
C3_Original ==
    \A a \in Accordions : \A i \in 1..(Len(toggleLog[a]) - 1) :
        toggleLog[a][i].id = toggleLog[a][i + 1].id
            => SameOpenState(toggleLog[a][i + 1].after, toggleLog[a][i].before)

\* C3 amended: toggleItem(id) twice in a row returns the open-state to what
\* it was before the first call when no other panel was open then; when
\* another panel was open, the accordion ends closed.
C3_TogglePair ==
    \A a \in Accordions : \A i \in 1..(Len(toggleLog[a]) - 1) :
        LET first == toggleLog[a][i]
            second == toggleLog[a][i + 1] IN
        first.id = second.id =>
            IF first.before \in PanelIds \ {first.id}
            THEN None(second.after)
            ELSE SameOpenState(second.after, first.before)

\* a panel was toggled twice in a row, once from closed and once from open
C3_Witness ==
    \E a \in Accordions : \E i \in 1..(Len(toggleLog[a]) - 1), j \in 1..(Len(toggleLog[a]) - 1) :
        /\ toggleLog[a][i].id = toggleLog[a][i + 1].id
        /\ None(toggleLog[a][i].before)
        /\ toggleLog[a][j].id = toggleLog[a][j + 1].id
        /\ toggleLog[a][j].before = toggleLog[a][j].id

\* C9: every Accordion.Content is open exactly when its item id equals
\* openItemId, also when several panels are rendered in the same pass.
C9_ContentFollowsOpenItemId ==
    \A a \in Accordions : \A p \in PanelIds :
        contentOpen[a][p] <=> (p = openItemId[a])

\* one panel was opened after another one, then closed: the pass rendered a
\* panel that opens, one that closes and panels that stay closed
C9_Witness ==
    \E a \in Accordions :
        /\ Len(toggleLog[a]) >= 3
        /\ \E i \in 1..Len(toggleLog[a]) :
              toggleLog[a][i].before \in PanelIds \ {toggleLog[a][i].id}
        /\ openItemId[a] = Null
        /\ OpenPanels(a) = {}


\* C11: an Accordion that was constructed and on which toggleItem was never
\* called is closed: openItemId is none and none of its panels is open.
C11_StartsClosed ==
    \A a \in Accordions :
        toggleLog[a] = <<>> => (None(openItemId[a]) /\ OpenPanels(a) = {})

\* one accordion is still as constructed while a panel of the other is open
C11_Witness ==
    \E a \in Accordions, b \in Accordions :
        /\ toggleLog[a] = <<>>
        /\ openItemId[a] = Undefined
        /\ toggleLog[b] # <<>>
        /\ openItemId[b] \in PanelIds

\* C12: a toggleItem call on one accordion leaves openItemId and the panels
\* of every other accordion unchanged, also when both have a panel with the
\* toggled id.
C12_InstancesIndependent ==
    [][\A a \in Accordions :
          toggleLog'[a] = toggleLog[a] =>
             (openItemId'[a] = openItemId[a] /\ contentOpen'[a] = contentOpen[a])
      ]_vars

\* the same panel id was toggled in both accordions and they differ: it is
\* open in one and closed in the other
C12_Witness ==
    \E a \in Accordions, b \in Accordions : \E p \in PanelIds :
        /\ \E i \in 1..Len(toggleLog[a]) : toggleLog[a][i].id = p
        /\ \E i \in 1..Len(toggleLog[b]) : toggleLog[b][i].id = p
        /\ openItemId[a] = p /\ contentOpen[a][p]
        /\ openItemId[b] = Null /\ ~contentOpen[b][p]

\* the user types into one list that stays mounted and keeps its items;
\* time passes and a due timer runs
ListLiveNext ==
    \/ \E text \in Texts : handleChange(1, text)
    \/ \E t \in timers : TimerFire(t)
    \/ Tick
FairListLive == WF_vars(Tick) /\ WF_vars(\E t \in timers : TimerFire(t))
SpecListLive == Init /\ [][ListLiveNext]_vars /\ FairListLive

\* ------------------------------------------------- SearchableList: claims
LastText(l) == IF keyLog[l] = <<>> THEN <<>> ELSE keyLog[l][Len(keyLog[l])].text

\* keystroke i is the last one of its burst: the next one, if any, comes
\* DELAY or more after it
BurstLast(l, i) ==
    i = Len(keyLog[l]) \/ keyLog[l][i + 1].at >= keyLog[l][i].at + DELAY

\* the burst ending with keystroke i was followed by more than DELAY of silence
BurstOver(l, i) ==
    /\ now > keyLog[l][i].at + DELAY
    /\ i < Len(keyLog[l]) => keyLog[l][i + 1].at > keyLog[l][i].at + DELAY

Bursts(l) == { i \in 1..Len(keyLog[l]) : BurstLast(l, i) }

\* the setSearchTerm calls made for the burst ending with keystroke i
CommitsOf(l, i) ==
    { j \in 1..Len(termLog[l]) : termLog[l][j].at = keyLog[l][i].at + DELAY }

\* C4 as claimed: every burst makes searchTerm change, exactly once, to
\* the text of its last keystroke, 500 ms after that keystroke.
C4_Original ==
    \A l \in Lists : \A i \in 1..Len(keyLog[l]) :
        (mounted[l] /\ BurstLast(l, i) /\ BurstOver(l, i)) =>
            \E j \in 1..Len(termLog[l]) :
                /\ CommitsOf(l, i) = {j}
                /\ termLog[l][j].value = keyLog[l][i].text
                /\ termLog[l][j].changed

\* C4 amended: a burst followed by more than 500 ms of silence, in a list
\* that stays mounted, sets searchTerm exactly once, to the text of the last
\* keystroke, 500 ms after it (a change of value unless searchTerm already
\* is that text); searchTerm is set at no other time and to no other text,
\* and the filter runs at most once per burst.
C4_BurstCommitsOnce ==
    \A l \in Lists :
        /\ \A j \in 1..Len(termLog[l]) :
              \E i \in 1..Len(keyLog[l]) :
                 /\ BurstLast(l, i)
                 /\ termLog[l][j].at = keyLog[l][i].at + DELAY
                 /\ termLog[l][j].value = keyLog[l][i].text
        /\ \A j \in 1..(Len(termLog[l]) - 1) : termLog[l][j].at < termLog[l][j + 1].at
        /\ \A i \in 1..Len(keyLog[l]) :
              (mounted[l] /\ BurstLast(l, i) /\ BurstOver(l, i)) =>
                 \E j \in 1..Len(termLog[l]) :
                    /\ CommitsOf(l, i) = {j}
                    /\ termLog[l][j].value = keyLog[l][i].text
                    /\ termLog[l][j].changed
                         <=> (keyLog[l][i].text #
                                (IF j = 1 THEN <<>> ELSE termLog[l][j - 1].value))
        /\ searchTerm[l] = (IF termLog[l] = <<>> THEN <<>>
                            ELSE termLog[l][Len(termLog[l])].value)
        /\ filterPasses[l] <= 1 + Cardinality(Bursts(l)) + itemChanges

\* keystrokes "a", "aM", "aMa" at t = 0, 100, 200: only "aMa" is committed,
\* at t = 700
C4_Witness ==
    /\ keyLog[1] = << [at |-> 0, text |-> <<"a">>],
                     [at |-> 100, text |-> <<"a","M">>],
                     [at |-> 200, text |-> <<"a","M","a">>] >>
    /\ termLog[1] = << [at |-> 700, value |-> <<"a","M","a">>, changed |-> TRUE] >>
    /\ now = 700
    /\ searchTerm[1] = <<"a","M","a">>

\* C5 as claimed: no debounce callback of a list runs after the list was
\* unmounted.
C5_NoCommitAfterUnmount ==
    \A l \in Lists : lateCommits[l] = 0

\* C6: searchTerm starts empty, a step that handles a keystroke leaves it
\* unchanged, and it changes only in a step in which a due timer of the
\* list runs.
C6_OnlyTimerSetsSearchTerm ==
    /\ \A l \in Lists : searchTerm[l] = <<>>
    /\ [][\A l \in Lists :
            /\ keyLog'[l] # keyLog[l] => searchTerm'[l] = searchTerm[l]
            /\ searchTerm'[l] # searchTerm[l] =>
                 \E t \in timers :
                    /\ t.owner = l
                    /\ t.deadline <= now
                    /\ t \notin timers'
                    /\ keyLog'[l] = keyLog[l]
         ]_vars

\* a keystroke was handled and searchTerm still has its initial value
C6_Witness ==
    \E l \in Lists :
        /\ keyLog[l] # <<>>
        /\ inputValue[l] # <<>>
        /\ termLog[l] = <<>>
        /\ searchTerm[l] = <<>>

Contains(hay, needle) ==
    \E pos \in 0..(Len(hay) - Len(needle)) :
        \A k \in 1..Len(needle) : hay[pos + k] = needle[k]

Kept(l) ==
    { i \in 1..Len(items[l]) :
        Contains(toLowerCase(JSONstringify(items[l][i])), toLowerCase(searchTerm[l])) }

Item1Lowered ==
    << "{", "\"", "i", "d", "\"", ":", "1", ",", "\"", "t", "e", "x", "t", "\"", ":",
       "\"", "a", "m", "a", "z", "o", "n", " ", "r", "i", "v", "e", "r", "\"", "}" >>

\* C7: the visible list is the subsequence of items, in input order, whose
\* lowercased JSON serialization contains the lowercased searchTerm; an
\* empty searchTerm keeps every item; "ama" keeps exactly the Amazon River
\* item.
C7_VisibleItems ==
    \A l \in Lists :
        LET kept == Kept(l) IN
        /\ Len(searchResults[l]) = Cardinality(kept)
        /\ \A j \in 1..Len(searchResults[l]) :
              \E i \in kept :
                 /\ Cardinality({ k \in kept : k < i }) = j - 1
                 /\ searchResults[l][j] = items[l][i]
        /\ searchTerm[l] = <<>> => searchResults[l] = items[l]
        /\ (/\ toLowerCase(searchTerm[l]) = <<"a","m","a">>
            /\ items[l] \in { <<Item1, Item2>>, <<Item2, Item1>> }) =>
              /\ searchResults[l] = <<Item1>>
              /\ toLowerCase(JSONstringify(searchResults[l][1])) = Item1Lowered

\* "aMa" was committed and then the items prop changed
C7_Witness ==
    \E l \in Lists :
        /\ searchTerm[l] = <<"a","M","a">>
        /\ items[l] # InitialItems[l]
        /\ searchResults[l] = <<Item1>>

\* C8: in a list that stays mounted, a pending debounce leads to searchTerm
\* being the text of the most recent keystroke, and once keystrokes have
\* stopped searchTerm stays that text.
C8_EventuallyLastText ==
    \A l \in Lists :
        /\ (TimersOf(l) # {}) ~> (TimersOf(l) = {} /\ searchTerm[l] = LastText(l))
        /\ <>[](searchTerm[l] = LastText(l))

\* a burst of two keystrokes was committed
C8_Witness ==
    \E l \in Lists :
        /\ mounted[l]
        /\ Len(keyLog[l]) >= 2
        /\ keyLog[l][2].at < keyLog[l][1].at + DELAY
        /\ TimersOf(l) = {}
        /\ searchTerm[l] = LastText(l)
        /\ searchTerm[l] # <<>>

\* the one scheduled callback of a list is the one its last keystroke armed
OneLiveTimer(ts, ref, log) ==
    \A l \in Lists :
        LET mine == { t \in ts : t.owner = l } IN
        /\ Cardinality(mine) <= 1
        /\ \A t \in mine :
              /\ ref[l] = Handle(t.id)
              /\ t.deadline = log[l][Len(log[l])].at + DELAY

\* C10: at most one debounce callback of a list is scheduled, it is the one
\* the last keystroke armed, and the only callback that ever runs is the
\* one lastChange refers to (a cleared one never runs).
C10_OneLiveTimer ==
    /\ OneLiveTimer(timers, lastChange, keyLog)
    /\ [][/\ OneLiveTimer(timers', lastChange', keyLog')
          /\ \A t \in timers :
               (t \notin timers' /\ keyLog'[t.owner] = keyLog[t.owner]) =>
                   /\ lastChange[t.owner] = Handle(t.id)
                   /\ t.deadline <= now
         ]_vars

\* a keystroke cleared the timer of the previous one and armed its own
C10_Witness ==
    \E l \in Lists :
        /\ Len(keyLog[l]) >= 2
        /\ keyLog[l][2].at < keyLog[l][1].at + DELAY
        /\ Cardinality(TimersOf(l)) = 1
        /\ nextTimerId >= 3

\* ------------------------------------------------------ rendering: claims
Keys(l) == [j \in 1..Len(rendered[l]) |-> rendered[l][j].key]

Ids(l) == [i \in 1..Len(items[l]) |-> items[l][i].id]

Injective(f) == \A i, j \in DOMAIN f : f[i] = f[j] => i = j

\* the ids of the items Kept(l) keeps, in input order
KeptIds(l) ==
    LET kept == Kept(l) IN
    [j \in 1..Cardinality(kept) |->
        items[l][CHOOSE i \in kept : Cardinality({ k \in kept : k < i }) = j - 1].id]

\* C13: the rendered list is a function of (items, searchTerm): it has one
\* unit per visible item, each the result of one call of the render function
\* on that item and keyed by the id of that item; two lists with the same
\* items and the same searchTerm show the same keys in the same order; and
\* when the ids of items are pairwise distinct, so are the rendered keys.
C13_RenderDetermined ==
    /\ \A l \in Lists :
          /\ Keys(l) = KeptIds(l)
          /\ Len(rendered[l]) = Len(searchResults[l])
          /\ \A j \in 1..Len(rendered[l]) :
                /\ rendered[l][j].item = searchResults[l][j]
                /\ rendered[l][j].key = rendered[l][j].item.id
                /\ rendered[l][j].unit =
                      (IF l = 1 THEN [place |-> searchResults[l][j]]
                                ELSE [string |-> searchResults[l][j].text])
          /\ Injective(Ids(l)) => Injective(Keys(l))
    /\ \A l, m \in Lists :
          (items[l] = items[m] /\ searchTerm[l] = searchTerm[m]) => Keys(l) = Keys(m)

\* after a change of the items prop both lists hold the same items, and both
\* committed the same term and rendered their items under it
C13_Witness ==
    /\ items[1] = items[2]
    /\ \E l \in Lists : items[l] # InitialItems[l]
    /\ termLog[1] # <<>> /\ termLog[2] # <<>>
    /\ searchTerm[1] = <<"a">> /\ searchTerm[2] = <<"a">>
    /\ Keys(1) # <<>>
    /\ Keys(1) = Keys(2)

\* ------------------------------------------------ queued updates: claims
\* the log entries i..j of accordion a after the step
Chained(a, from, first, n) ==
    \A i \in 1..n :
        LET e == toggleLog'[a][first + i - 1] IN
        /\ e.before = (IF i = 1 THEN from ELSE toggleLog'[a][first + i - 2].after)
        /\ e.after = (IF e.before = e.id THEN Null ELSE e.id)

\* C14: an activation queues exactly one update and changes no state by
\* itself; the re-render applies one toggle per queued activation, in order,
\* each to the state left by the one before it, and openItemId becomes the
\* result of the last; two queued activations of the same closed panel leave
\* it closed.
C14_QueuedToggles ==
    [][\A a \in Accordions :
         LET q == updateQueue[a]
             n == Len(toggleLog[a]) IN
         /\ updateQueue'[a] # q /\ updateQueue'[a] # <<>> =>
               /\ Len(updateQueue'[a]) = Len(q) + 1
               /\ SubSeq(updateQueue'[a], 1, Len(q)) = q
               /\ openItemId'[a] = openItemId[a]
               /\ toggleLog'[a] = toggleLog[a]
         /\ q # <<>> /\ updateQueue'[a] = <<>> =>
               /\ Len(toggleLog'[a]) = n + Len(q)
               /\ SubSeq(toggleLog'[a], 1, n) = toggleLog[a]
               /\ \A i \in 1..Len(q) : toggleLog'[a][n + i].id = q[i].id
               /\ Chained(a, openItemId[a], n + 1, Len(q))
               /\ openItemId'[a] = toggleLog'[a][n + Len(q)].after
               /\ \A p \in PanelIds : contentOpen'[a][p] <=> openItemId'[a] = p
               /\ (Len(q) = 2 /\ q[1].id = q[2].id /\ openItemId[a] # q[1].id) =>
                     (openItemId'[a] = Null /\ ~contentOpen'[a][q[1].id])
      ]_vars

\* two activations of one closed panel were applied in one re-render
C14_Witness ==
    \E a \in Accordions :
        /\ Len(toggleLog[a]) >= 2
        /\ updateQueue[a] = <<>>
        /\ LET n == Len(toggleLog[a]) IN
              /\ toggleLog[a][n].id = toggleLog[a][n - 1].id
              /\ toggleLog[a][n - 1].before # toggleLog[a][n].id
              /\ toggleLog[a][n - 1].after = toggleLog[a][n].id
              /\ openItemId[a] = Null

\* ---------------------------------------------------- nested items: claims
Parents(S) == { Tree[x].parent : x \in S } \ {0}

RECURSIVE Above(_, _)
Above(S, k) == IF k = 0 THEN S ELSE Above(S \cup Parents(S), k - 1)

\* the elements n is a descendant of
Ancestors(n) == Above(Parents({n}), Len(Tree))

Items == { m \in Nodes : Tree[m].kind = "Item" }

\* C15: a click on a title calls toggleItem once, with the id of the item
\* that is an ancestor of the title and has no other item between itself and
\* the title; the id of an outer item and the id of an item the title is not
\* a descendant of are never the ones toggled.
C15_NearestItem ==
    [][clickedTitle' \in Titles /\ toggleLog' # toggleLog =>
         LET n == clickedTitle'
             log == toggleLog'[1]
             e == log[Len(log)] IN
         /\ Len(log) = Len(toggleLog[1]) + 1
         /\ SubSeq(log, 1, Len(log) - 1) = toggleLog[1]
         /\ \E m \in Items \cap Ancestors(n) :
               /\ e.id = Tree[m].id
               /\ \A k \in (Items \cap Ancestors(n)) \ {m} : k \in Ancestors(m)
         /\ \A k \in Items \ Ancestors(n) : e.id # Tree[k].id
         /\ \A k \in Items \cap Ancestors(n) :
               (\E m \in Items \cap Ancestors(n) : k \in Ancestors(m)) => e.id # Tree[k].id
      ]_vars

\* the title of the nested item was clicked while the outer item was open:
\* the inner id was toggled
C15_Witness ==
    /\ clickedTitle = 6
    /\ Len(toggleLog[1]) >= 2
    /\ LET e == toggleLog[1][Len(toggleLog[1])] IN
          /\ e.before = "compound-components"
          /\ e.id = "compound-components-mechanics"
          /\ openItemId[1] = "compound-components-mechanics"

\* ------------------------------------------------- timer handle: claims
\* C16: the ref of a list holds a handle exactly when a callback of that
\* list is scheduled and has not run, and then it is the handle of that
\* callback, so the handle a keystroke passes to clearTimeout is never that
\* of a timer that has already fired.
C16_HandleIffScheduled ==
    \A l \in Lists :
        /\ Truthy(lastChange[l]) <=> TimersOf(l) # {}
        /\ \A t \in TimersOf(l) : lastChange[l] = Handle(t.id)
        /\ TimersOf(l) = {} => lastChange[l] \in {NoHandle(Undefined), NoHandle(Null)}
        /\ (keyLog[l] = <<>>) <=> (lastChange[l] = NoHandle(Undefined))

\* a keystroke arrived after a timer of the list had fired and reset the ref
C16_Witness ==
    \E l \in Lists :
        /\ termLog[l] # <<>>
        /\ TimersOf(l) # {}
        /\ keyLog[l][Len(keyLog[l])].at > termLog[l][Len(termLog[l])].at
        /\ Truthy(lastChange[l])

\* an event of list m: a keystroke in it or the run of one of its callbacks
EventOf(m) == keyLog'[m] # keyLog[m] \/ termLog'[m] # termLog[m]

\* C17: a keystroke or a timer fire in one list leaves the pending timer,
\* the timer handle, the input value, the searchTerm and the visible items of
\* the other list as they were.
C17_ListsIndependent ==
    [][\A l, m \in Lists :
         (l # m /\ EventOf(m) /\ ~EventOf(l)) =>
            /\ { t \in timers' : t.owner = l } = TimersOf(l)
            /\ lastChange'[l] = lastChange[l]
            /\ inputValue'[l] = inputValue[l]
            /\ searchTerm'[l] = searchTerm[l]
            /\ searchResults'[l] = searchResults[l]
            /\ rendered'[l] = rendered[l]
      ]_vars

\* one list has committed its term while the timer of the other, armed
\* earlier by a keystroke, is still pending
C17_Witness ==
    \E l, m \in Lists :
        /\ l # m
        /\ termLog[l] # <<>> /\ searchTerm[l] = <<"a">>
        /\ TimersOf(m) # {} /\ Truthy(lastChange[m])
        /\ inputValue[m] # <<>> /\ searchTerm[m] = <<>>
        /\ keyLog[m][1].at <= termLog[l][1].at

====
